---- MODULE Spec2Model ----
(***************************************************************************)
(* Model of xquery.py: the Xquery query session (add_filter, order, fetch, *)
(* clear) on top of a Datastore client.  One Xquery object is followed     *)
(* through an arbitrary sequence of calls; a second object, constructed    *)
(* by __init__ at the moment the first one is reused after clear(), gets   *)
(* the same calls so that the two can be compared.                         *)
(*                                                                         *)
(* Python values: None is NoneVal; a kind is a TLA+ string; a property     *)
(* name or sort field is a Python str that the code indexes (field[0],     *)
(* field[1:]), so it is a sequence of characters; a filter clause is the   *)
(* tuple (property_name, operator, value); the dict _filters, which        *)
(* iterates in first-insertion order, is a sequence of [prop, clauses]     *)
(* items; a record (entity) is named by its key.                           *)
(***************************************************************************)
EXTENDS Integers, Sequences, FiniteSets, TLC

\* Largest number of add_filter calls between two clear() calls.
MaxClauses == 3

NoneVal == "None"

\* ---------------------------------------------------------------- inputs
f1 == <<"f", "1">>
f2 == <<"f", "2">>
f3 == <<"f", "3">>
Desc(name) == <<"-">> \o name

\* kinds a caller binds: at construction, or by assigning the attribute
Kinds == {"fields", "other"}
KindInputs == Kinds \cup {NoneVal, ""}

\* the clauses of the example usage, and a second clause on f1
ClauseInputs ==
    { <<f1, "<=", 2>>, <<f1, ">=", 2>>, <<f2, "=", 2>>, <<f2, ">=", 2>>,
      <<f3, "=", 2>> }

\* arguments of order(): a str, or a list of str
OrderInputs ==
    { [type |-> "str", val |-> f2],
      [type |-> "str", val |-> Desc(f1)],
      [type |-> "list", val |-> <<f1, Desc(f2)>>],
      [type |-> "list", val |-> <<Desc(f2), f1>>],
      [type |-> "list", val |-> <<>>] }

\* ------------------------------------------------------- the Store Client
\* The entities of the store.  e1 and e2 agree on f1 and f2; e3 agrees with
\* them on f1 only; e4 is greater on f1.  e5 is of another kind and has no f2.
Store ==
    [ e1 |-> [kind |-> "fields", props |-> (f1 :> 1 @@ f2 :> 2 @@ f3 :> 2)],
      e2 |-> [kind |-> "fields", props |-> (f1 :> 1 @@ f2 :> 2 @@ f3 :> 1)],
      e3 |-> [kind |-> "fields", props |-> (f1 :> 1 @@ f2 :> 3 @@ f3 :> 2)],
      e4 |-> [kind |-> "fields", props |-> (f1 :> 2 @@ f2 :> 3 @@ f3 :> 2)],
      e5 |-> [kind |-> "other",  props |-> (f1 :> 2 @@ f3 :> 2)] ]

Compare(a, op, b) ==
    CASE op = "="  -> a = b
      [] op = "<"  -> a < b
      [] op = "<=" -> a <= b
      [] op = ">"  -> a > b
      [] op = ">=" -> a >= b

Matches(key, clause) ==
    /\ clause[1] \in DOMAIN Store[key].props
    /\ Compare(Store[key].props[clause[1]], clause[2], clause[3])

\* client.query(kind=k), keys_only(), add_filter(*clause) for each clause,
\* fetch(): the keys of the entities of that kind matching every clause
query_fetch(k, clauses) ==
    { key \in DOMAIN Store :
        /\ Store[key].kind = k
        /\ \A i \in 1..Len(clauses) : Matches(key, clauses[i]) }

RECURSIVE Perms(_)
Perms(S) ==
    IF S = {} THEN {<<>>}
    ELSE UNION { { <<x>> \o p : p \in Perms(S \ {x}) } : x \in S }

\* client.get_multi(keys): the records of the keys, in an order the store picks
get_multi(keys) == Perms(keys)

\* ------------------------------------------------------------ the session
\* "self.kind is None" in the place of "not self.kind"
TruthyNotNone(k) == k # NoneVal

\* bool(self.kind)
Truthy(k) == k \notin {NoneVal, ""}

\* position of property_name in the dict, 0 when absent
Find(filters, property_name) ==
    IF \E i \in 1..Len(filters) : filters[i].prop = property_name
    THEN CHOOSE i \in 1..Len(filters) : filters[i].prop = property_name
    ELSE 0

\* "self._filters[property_name] = [clause]" on both branches
AddFilterOverwrite(filters, property_name, operator, value) ==
    LET i == Find(filters, property_name)
        clause == <<property_name, operator, value>>
    IN  IF i # 0
        THEN [filters EXCEPT ![i].clauses = <<clause>>]
        ELSE Append(filters, [prop |-> property_name, clauses |-> <<clause>>])

AddFilter(filters, property_name, operator, value) ==
    LET i == Find(filters, property_name)
        clause == <<property_name, operator, value>>
    IN  IF i # 0 /\ filters[i].clauses # <<>>
        THEN [filters EXCEPT ![i].clauses = Append(@, clause)]
        ELSE IF i # 0
        THEN [filters EXCEPT ![i].clauses = <<clause>>]
        ELSE Append(filters, [prop |-> property_name, clauses |-> <<clause>>])

Order(value) == IF value.type = "str" THEN <<value.val>> ELSE value.val

\* ------------------------------------------------------------------ fetch
\* One call made on the client, as the client sees it.
QueryCall(k, clauses, raised) ==
    [op |-> "query", kind |-> k, keys_only |-> TRUE, clauses |-> clauses,
     keys |-> {}, reply |-> <<>>,
     status |-> IF raised THEN "raised" ELSE "returned"]

GetMultiCall(keys, reply, raised) ==
    [op |-> "get_multi", kind |-> NoneVal, keys_only |-> FALSE, clauses |-> <<>>,
     keys |-> keys, reply |-> IF raised THEN <<>> ELSE reply,
     status |-> IF raised THEN "raised" ELSE "returned"]

\* a _fetch_keys that adds only the first clause of the group to the query
_fetch_keys_first(k, clauses, raises) ==
    [call |-> QueryCall(k, <<clauses[1]>>, raises),
     raised |-> raises,
     keys |-> IF raises THEN {} ELSE query_fetch(k, <<clauses[1]>>)]

\* _fetch_keys(clauses): one keys-only query of the session's kind with every
\* clause added; the caller consumes the generator at once, so the query has
\* returned all its keys, or raised, before the caller goes on
_fetch_keys(k, clauses, raises) ==
    [call |-> QueryCall(k, clauses, raises),
     raised |-> raises,
     keys |-> IF raises THEN {} ELSE query_fetch(k, clauses)]

\* keys.update(other) in the place of keys.intersection_update(other)
intersection_update_union(keys, other) == keys \cup other

\* keys.intersection_update(other)
intersection_update(keys, other) == keys \cap other

\* a loop that catches the error of a key query and goes on with no keys
RECURSIVE FetchLoopCatching(_, _, _, _, _, _)
FetchLoopCatching(keys, calls, k, filters, i, failAt) ==
    IF i > Len(filters) THEN [keys |-> keys, calls |-> calls, raised |-> FALSE]
    ELSE LET q == _fetch_keys(k, filters[i].clauses, i = failAt)
         IN  FetchLoopCatching(IF i = 1 THEN q.keys
                               ELSE intersection_update(keys, q.keys),
                               Append(calls, q.call), k, filters, i + 1, failAt)

\* keys = set(_fetch_keys(first group)); for field in it: intersection_update.
\* The store call number failAt raises (0: none does), which ends the loop.
RECURSIVE FetchLoop(_, _, _, _, _, _)
FetchLoop(keys, calls, k, filters, i, failAt) ==
    IF i > Len(filters) THEN [keys |-> keys, calls |-> calls, raised |-> FALSE]
    ELSE LET q == _fetch_keys(k, filters[i].clauses, i = failAt)
         IN  IF q.raised
             THEN [keys |-> {}, calls |-> Append(calls, q.call), raised |-> TRUE]
             ELSE FetchLoop(IF i = 1 THEN q.keys
                                     ELSE intersection_update(keys, q.keys),
                            Append(calls, q.call), k, filters, i + 1, failAt)

\* the final key set of a fetch() in which no store call raises
Keys(k, filters) == FetchLoop({}, <<>>, k, filters, 1, 0).keys

\* field[0] == '-'  and  field if field[0] != '-' else field[1:]
Reverse(field) == Head(field) = "-"
FieldName(field) == IF Head(field) # "-" THEN field ELSE Tail(field)

\* x[field_name]
Item(x, field_name) == Store[x].props[field_name]

\* list.sort(key=..., reverse=...) is stable in both directions: x goes before
\* the first element that must follow it, so after every element equal to it
RECURSIVE Insert(_, _, _, _)
Insert(sorted, x, field_name, reverse) ==
    IF sorted = <<>> THEN <<x>>
    ELSE LET y == Head(sorted)
             before == IF reverse THEN Item(x, field_name) > Item(y, field_name)
                                  ELSE Item(x, field_name) < Item(y, field_name)
         IN  IF before THEN <<x>> \o sorted
             ELSE <<y>> \o Insert(Tail(sorted), x, field_name, reverse)

RECURSIVE SortFrom(_, _, _, _)
SortFrom(sorted, rest, field_name, reverse) ==
    IF rest = <<>> THEN sorted
    ELSE SortFrom(Insert(sorted, Head(rest), field_name, reverse),
                  Tail(rest), field_name, reverse)

Sort(rs, field_name, reverse) == SortFrom(<<>>, rs, field_name, reverse)

\* "for field in self._order": the passes in priority order, first key first
RECURSIVE SortPassesForward(_, _, _)
SortPassesForward(rs, ord, i) ==
    IF i = 0 THEN rs
    ELSE LET j == Len(ord) - i + 1
         IN  SortPassesForward(Sort(rs, FieldName(ord[j]), Reverse(ord[j])),
                               ord, i - 1)

\* for field in reversed(self._order): results.sort(...)
RECURSIVE SortPasses(_, _, _)
SortPasses(rs, ord, i) ==
    IF i = 0 THEN rs
    ELSE SortPasses(Sort(rs, FieldName(ord[i]), Reverse(ord[i])), ord, i - 1)

\* some pass looks up a field that a record does not have
RaisesKeyError(rs, ord) ==
    \E i \in 1..Len(ord), j \in 1..Len(rs) :
        FieldName(ord[i]) \notin DOMAIN Store[rs[j]].props

Raise(error, calls) == [outcome |-> error, results |-> <<>>, calls |-> calls]

\* fetch() of a session (k, filters, ord).  failAt is the store call that
\* raises (0: none), reply the order in which get_multi returns the records.
Fetch(k, filters, ord, failAt, reply) ==
    IF ~Truthy(k) THEN Raise("ValueError", <<>>)
    ELSE IF Len(filters) = 0 THEN Raise("ValueError", <<>>)
    ELSE LET loop == FetchLoop({}, <<>>, k, filters, 1, failAt)
         IN  IF loop.raised THEN Raise("StoreError", loop.calls)
             ELSE IF failAt = Len(filters) + 1
             THEN Raise("StoreError",
                        Append(loop.calls, GetMultiCall(loop.keys, reply, TRUE)))
             ELSE LET calls == Append(loop.calls,
                                      GetMultiCall(loop.keys, reply, FALSE))
                  IN  IF RaisesKeyError(reply, ord)
                      THEN Raise("KeyError", calls)
                      ELSE [outcome |-> "ok",
                            results |-> SortPasses(reply, ord, Len(ord)),
                            calls |-> calls]

\* what get_multi may answer to the fetch() of a session
Replies(k, filters) ==
    IF Truthy(k) /\ Len(filters) > 0 THEN get_multi(Keys(k, filters)) ELSE {<<>>}

\* --------------------------------------------------------------- state
VARIABLES
    kind,            \* self.kind
    _filters,        \* self._filters
    _order,          \* self._order
    outcome,         \* how the last call ended, when it was fetch(): "ok" or
                     \* the error it raised; "none" after any other call
    results,         \* the list the last fetch() returned
    calls,           \* the calls the last fetch() made on the client
    added,           \* the clauses passed to add_filter since the last clear()
    kind_assigned,   \* the caller has assigned self.kind since construction
    just_cleared,    \* the last call that changed the session was clear()
    fresh            \* the second object: NoSession, or its kind, filters,
                     \* order, outcome, results and calls

vars == <<kind, _filters, _order, outcome, results, calls, added,
          kind_assigned, just_cleared, fresh>>

NoSession == [exists |-> FALSE]

\* a clear() that forgets to reset the sort order
ClearKeepsOrder == [kind |-> NoneVal, filters |-> <<>>, order |-> _order]

\* a clear() that leaves the kind bound
ClearKeepsKind == [kind |-> kind, filters |-> <<>>, order |-> <<>>]

\* what clear() assigns to self.kind, self._filters and self._order
Clear == [kind |-> NoneVal, filters |-> <<>>, order |-> <<>>]

\* a fetch() that consumes the filter groups it has queried
SessionAfterFetchConsumed == kind' = kind /\ _filters' = <<>> /\ _order' = _order

\* fetch() assigns no attribute of self
SessionAfterFetch == UNCHANGED <<kind, _filters, _order>>

\* Xquery.__init__(kind)
New(k) == [kind |-> k, filters |-> <<>>, order |-> <<>>]

NoFetch == [outcome |-> "none", results |-> <<>>, calls |-> <<>>]

Twin(session, out) ==
    [exists |-> TRUE, kind |-> session.kind, filters |-> session.filters,
     order |-> session.order, outcome |-> out.outcome,
     results |-> out.results, calls |-> out.calls]

Init ==
    /\ kind = "fields"
    /\ _filters = New(kind).filters
    /\ _order = New(kind).order
    /\ outcome = "none" /\ results = <<>> /\ calls = <<>>
    /\ added = <<>>
    /\ kind_assigned = FALSE
    /\ just_cleared = FALSE
    /\ fresh = NoSession

ForgetFetch == outcome' = "none" /\ results' = <<>> /\ calls' = <<>>

add_filter(clause) ==
    /\ Len(added) < MaxClauses
    /\ _filters' = AddFilter(_filters, clause[1], clause[2], clause[3])
    /\ added' = Append(added, clause)
    /\ fresh' = IF fresh.exists
                THEN Twin([kind |-> fresh.kind, order |-> fresh.order,
                           filters |-> AddFilter(fresh.filters, clause[1],
                                                 clause[2], clause[3])],
                          NoFetch)
                ELSE fresh
    /\ just_cleared' = FALSE
    /\ ForgetFetch
    /\ UNCHANGED <<kind, _order, kind_assigned>>

order(value) ==
    /\ _order' = Order(value)
    /\ fresh' = IF fresh.exists
                THEN Twin([kind |-> fresh.kind, filters |-> fresh.filters,
                           order |-> Order(value)], NoFetch)
                ELSE fresh
    /\ just_cleared' = FALSE
    /\ ForgetFetch
    /\ UNCHANGED <<kind, _filters, added, kind_assigned>>

\* the caller binds a kind: xq.kind = k.  Directly after clear() the second
\* object is constructed with that kind.
set_kind(k) ==
    /\ kind' = k
    /\ fresh' = IF just_cleared THEN Twin(New(k), NoFetch)
                ELSE IF fresh.exists
                THEN Twin([kind |-> k, filters |-> fresh.filters,
                           order |-> fresh.order], NoFetch)
                ELSE fresh
    /\ kind_assigned' = TRUE
    /\ just_cleared' = FALSE
    /\ ForgetFetch
    /\ UNCHANGED <<_filters, _order, added>>

\* fetch() on the session and, when there is one, on the second object.  The
\* store answers both alike: the same call raises, and the same keys come
\* back in the same order.
fetch ==
    \E failAt \in 0..(Len(_filters) + 1) :
    \E reply \in (IF failAt = 0 THEN Replies(kind, _filters) ELSE {<<>>}) :
    \E out \in {Fetch(kind, _filters, _order, failAt, reply)} :
        /\ outcome' = out.outcome
        /\ results' = out.results
        /\ calls' = out.calls
        /\ IF fresh.exists
           THEN \E freply \in (IF failAt = 0
                                THEN Replies(fresh.kind, fresh.filters)
                                ELSE {<<>>}) :
                   /\ \/ freply = reply
                      \/ {freply[i] : i \in 1..Len(freply)}
                         # {reply[i] : i \in 1..Len(reply)}
                   /\ fresh' = Twin(fresh,
                                    Fetch(fresh.kind, fresh.filters,
                                          fresh.order, failAt, freply))
           ELSE fresh' = fresh
        /\ SessionAfterFetch
        /\ UNCHANGED <<added, kind_assigned, just_cleared>>

clear ==
    /\ kind' = Clear.kind
    /\ _filters' = Clear.filters
    /\ _order' = Clear.order
    /\ added' = <<>>
    /\ just_cleared' = TRUE
    /\ fresh' = NoSession
    /\ ForgetFetch
    /\ UNCHANGED kind_assigned

Next ==
    \/ \E clause \in ClauseInputs : add_filter(clause)
    \/ \E value \in OrderInputs : order(value)
    \/ \E k \in KindInputs : set_kind(k)
    \/ fetch
    \/ clear

Spec == Init /\ [][Next]_vars

\* ----------------------------------------------------------------- claims
Range(seq) == {seq[i] : i \in 1..Len(seq)}

\* the keys the native key query of group g returns
NativeKeys(g) == query_fetch(kind, _filters[g].clauses)

\* the keys that every group's native key query returns
InEveryGroup ==
    {key \in DOMAIN Store : \A g \in 1..Len(_filters) : key \in NativeKeys(g)}

\* the groups of the session in another order of insertion
Reordered(p) == [i \in 1..Len(_filters) |-> _filters[p[i]]]

\* C1: with a kind bound and at least one group, a fetch() in which no store
\* call raises returns exactly the records whose keys every group's native key
\* query returns, each once, whatever the order the groups were added in; when
\* that intersection is empty it returns the empty list and raises nothing.
C1_Intersection ==
    /\ outcome = "ok" =>
          /\ Range(results) = InEveryGroup
          /\ Len(results) = Cardinality(InEveryGroup)
          /\ \A p \in Perms(1..Len(_filters)) :
                Keys(kind, Reordered(p)) = Range(results)
    /\ ( /\ outcome \notin {"none", "StoreError"}
         /\ Truthy(kind) /\ Len(_filters) > 0
         /\ InEveryGroup = {} )
       => (outcome = "ok" /\ results = <<>>)

\* three groups, and a result that is a proper part of each group's keys
C1_Witness ==
    /\ outcome = "ok"
    /\ Len(_filters) = 3
    /\ results # <<>>
    /\ \A g \in 1..3 : Range(results) # NativeKeys(g)

\* C2: fetch() raises the configuration error when the session has no filter
\* clause and when the kind is unset (None or empty), filters or not, and then
\* it has made no call on the client.
C2_ConfigurationError ==
    (outcome # "none" /\ (Len(_filters) = 0 \/ kind \in {NoneVal, ""}))
    => (outcome = "ValueError" /\ calls = <<>> /\ results = <<>>)

\* an empty kind with filters present
C2_Witness ==
    /\ outcome = "ValueError"
    /\ kind = ""
    /\ Len(_filters) > 0

\* the list get_multi returned to the last fetch()
Bulk == calls[Len(calls)].reply

Position(seq, x) == CHOOSE i \in 1..Len(seq) : seq[i] = x

\* a sort key with the leading '-' marker is descending
Descending(field) == field[1] = "-"
Property(field) == IF Descending(field) THEN SubSeq(field, 2, Len(field)) ELSE field
Value(x, field) == Store[x].props[Property(field)]

SameOn(a, b, fields, n) == \A i \in 1..n : Value(a, fields[i]) = Value(b, fields[i])

\* a must come before b: on the first sort key on which they differ, a is the
\* smaller for an ascending key, the greater for a descending one
MustPrecede(a, b, fields) ==
    \E i \in 1..Len(fields) :
        /\ SameOn(a, b, fields, i - 1)
        /\ IF Descending(fields[i])
           THEN Value(a, fields[i]) > Value(b, fields[i])
           ELSE Value(a, fields[i]) < Value(b, fields[i])

\* C3: the list fetch() returns is ordered by the whole priority sequence of
\* the sort order, first key primary, each key ascending or, with the '-'
\* marker, descending; records equal on every sort key keep the order in which
\* get_multi returned them.
C3_SortedByPriority ==
    outcome = "ok" =>
        /\ Range(results) = Range(Bulk) /\ Len(results) = Len(Bulk)
        /\ \A i \in 1..Len(results), j \in 1..Len(results) :
              i < j =>
                 /\ ~MustPrecede(results[j], results[i], _order)
                 /\ SameOn(results[i], results[j], _order, Len(_order))
                    => Position(Bulk, results[i]) < Position(Bulk, results[j])

\* [f1 ascending, f2 descending] on all four records, returned by get_multi in
\* the opposite order: e3 (greater f2) before e2 and e1, which tie and keep
\* their order, and e4 (greater f1) last although its f2 is the greatest
C3_Witness ==
    /\ outcome = "ok"
    /\ _order = <<f1, Desc(f2)>>
    /\ Bulk = <<"e4", "e1", "e3", "e2">>
    /\ results = <<"e3", "e1", "e2", "e4">>

\* C4: a session reused after clear(), given a kind and then filters and a
\* sort order, has the state of a session constructed with that kind and given
\* the same calls, and its fetch() makes the same store calls and ends the same.
C4_ReuseLikeFresh ==
    fresh.exists =>
        /\ kind = fresh.kind
        /\ _filters = fresh.filters
        /\ _order = fresh.order
        /\ outcome = fresh.outcome
        /\ results = fresh.results
        /\ calls = fresh.calls

\* both objects have been configured and have fetched records
C4_Witness ==
    /\ fresh.exists
    /\ fresh.outcome = "ok"
    /\ Len(fresh.filters) = 2
    /\ fresh.order # <<>>
    /\ Len(fresh.results) > 1

\* C5: used as the example usage does (constructed with a kind that is never
\* assigned again; add_filter, fetch, clear, add_filter, fetch), a fetch() with
\* filters present does not raise the configuration error, and when no store
\* call raises it returns the records of kind "fields" that every group's
\* query returns.
C5_ExampleUsage ==
    ( /\ ~kind_assigned
      /\ Len(_filters) > 0
      /\ outcome \notin {"none", "StoreError", "KeyError"} )
    => /\ outcome = "ok"
       /\ Range(results) =
             {key \in DOMAIN Store :
                 \A g \in 1..Len(_filters) :
                     key \in query_fetch("fields", _filters[g].clauses)}

\* C6: fetch() leaves the kind, the filter groups and the sort order as they
\* were, whether it returns or raises; a fetch() after a fetch() that returned
\* does not raise the configuration error and, when it returns, returns the
\* same set of records.
C6_FetchFrame ==
    [][ outcome' # "none" =>
          /\ UNCHANGED <<kind, _filters, _order>>
          /\ outcome = "ok" => outcome' # "ValueError"
          /\ (outcome = "ok" /\ outcome' = "ok") => Range(results') = Range(results)
      ]_vars

\* a fetch() of a configured session has raised a store error
C6_Witness ==
    /\ outcome = "StoreError"
    /\ Truthy(kind)
    /\ Len(_filters) = 2
    /\ _order # <<>>

\* a step of clear(): just_cleared is set and no fetch result is left
ClearStep == just_cleared' /\ outcome' = "none"

\* C7: clear() leaves no filters, no sort order and the kind unset; a second
\* clear() changes nothing; fetch() called directly after clear() raises the
\* configuration error, without a call on the client.
C7_Clear ==
    [][ /\ ClearStep => (kind' = NoneVal /\ _filters' = <<>> /\ _order' = <<>>)
        /\ (ClearStep /\ just_cleared) => UNCHANGED <<kind, _filters, _order>>
        /\ (just_cleared /\ outcome' # "none")
           => (outcome' = "ValueError" /\ calls' = <<>>)
      ]_vars

\* fetch() directly after clear() has raised the configuration error
C7_Witness ==
    /\ just_cleared
    /\ kind_assigned
    /\ outcome = "ValueError"

\* the clauses added for a property since the last clear(), in call order
AddedFor(property_name) == SelectSeq(added, LAMBDA c : c[1] = property_name)

QueriesOf(g) ==
    {i \in 1..Len(calls) :
        calls[i].op = "query" /\ calls[i].clauses = _filters[g].clauses}

\* C8: a fetch() that returns has made, for every group, exactly one keys-only
\* query of the session's kind with exactly the clauses of that group's
\* property, and no other query; then exactly one get_multi, after every
\* query has returned, with exactly the intersection of the queries' keys.
C8_StoreCalls ==
    outcome = "ok" =>
        /\ Len(calls) = Len(_filters) + 1
        /\ \A g \in 1..Len(_filters) :
              /\ Cardinality(QueriesOf(g)) = 1
              /\ _filters[g].clauses = AddedFor(_filters[g].prop)
        /\ \A i \in 1..Len(_filters) :
              /\ calls[i].op = "query"
              /\ calls[i].kind = kind
              /\ calls[i].keys_only
              /\ calls[i].status = "returned"
              /\ \E g \in 1..Len(_filters) : i \in QueriesOf(g)
        /\ calls[Len(calls)].op = "get_multi"
        /\ calls[Len(calls)].status = "returned"
        /\ calls[Len(calls)].keys = InEveryGroup

\* two groups, one of them with two clauses
C8_Witness ==
    /\ outcome = "ok"
    /\ Len(_filters) = 2
    /\ Len(added) = 3
    /\ Len(calls) = 3

\* C9: when a store call raises, fetch() raises that error and returns no
\* record; the call that raised is the last call made, so it is not made again
\* and a key query that raised is not followed by get_multi.
C9_StoreError ==
    /\ outcome = "StoreError" =>
          /\ results = <<>>
          /\ calls # <<>>
          /\ calls[Len(calls)].status = "raised"
    /\ \A i \in 1..Len(calls) :
          calls[i].status = "raised" =>
             /\ i = Len(calls)
             /\ outcome = "StoreError"
             /\ results = <<>>

\* the second of three key queries raised: two calls, no get_multi
C9_Witness ==
    /\ outcome = "StoreError"
    /\ Len(_filters) = 3
    /\ Len(calls) = 2
    /\ calls[2].op = "query"

\* the properties of the clauses added, each once, in order of first addition
RECURSIVE FirstAdded(_, _)
FirstAdded(clauses, seen) ==
    IF clauses = <<>> THEN <<>>
    ELSE IF Head(clauses)[1] \in seen THEN FirstAdded(Tail(clauses), seen)
    ELSE <<Head(clauses)[1]>>
         \o FirstAdded(Tail(clauses), seen \cup {Head(clauses)[1]})

\* every group holds exactly the clauses added for its property, in call order,
\* and the groups are in order of first addition
GroupsAreAdded ==
    /\ [g \in 1..Len(_filters) |-> _filters[g].prop] = FirstAdded(added, {})
    /\ \A g \in 1..Len(_filters) :
          _filters[g].clauses = AddedFor(_filters[g].prop)

\* C10: add_filter appends the one clause to the end of the group of its
\* property, creating the group after the others if absent; the other groups,
\* the kind and the sort order are unchanged; after any sequence of add_filter
\* calls every group holds exactly the clauses added for its property, in call
\* order, and the groups are in order of first addition.
C10_AddFilter ==
    [][ Len(added') = Len(added) + 1 =>
          LET clause == added'[Len(added')]
              g == Find(_filters, clause[1])
          IN  /\ UNCHANGED <<kind, _order>>
              /\ IF g = 0
                 THEN _filters' = Append(_filters,
                                         [prop |-> clause[1], clauses |-> <<clause>>])
                 ELSE /\ Len(_filters') = Len(_filters)
                      /\ \A i \in 1..Len(_filters) :
                            /\ _filters'[i].prop = _filters[i].prop
                            /\ _filters'[i].clauses =
                                  IF i = g THEN Append(_filters[i].clauses, clause)
                                  ELSE _filters[i].clauses
              /\ GroupsAreAdded'
      ]_vars

\* f1, f2, f1 added in that order: two groups, the first with both f1 clauses
C10_Witness ==
    /\ Len(added) = 3
    /\ added[1][1] = added[3][1]
    /\ added[1][1] # added[2][1]
    /\ added[1] # added[3]
    /\ Len(_filters) = 2
    /\ _filters[1].clauses = <<added[1], added[3]>>
    /\ _filters[2].clauses = <<added[2]>>

====
